---- MODULE Spec2Model ----
(***************************************************************************)
(* Know-Flow backend: the orchestration entry points of                    *)
(* backend/content_generation.py (generate_learning_plan and its async     *)
(* wrapper around the "Learning Orchestrator" team of agents) and the      *)
(* documents the agents' tools write.                                      *)
(*                                                                         *)
(* The teams are agno Teams in "coordinate" mode: the team's model picks,  *)
(* call by call, which member to delegate to and when to answer.  The      *)
(* source gives the members, the tools and prose instructions; no code     *)
(* orders, counts or gates the delegations, so the choice is modelled as   *)
(* a nondeterministic one over the members the source lists.  One run is   *)
(* synchronous (leader.run(..., stream=False)): a delegation returns       *)
(* before the next one starts, which is the call stack below.              *)
(***************************************************************************)
EXTENDS Integers, Sequences, FiniteSets, TLC

\* ---------------------------------------------------------------- bounds
NumRuns == 2
\* member calls of one run that are not retries
MaxDelegations == 4
\* calls of one worker in a row, each a retry of the one before
MaxAttempts == 5
\* member calls of one run while several runs are interleaved
MaxConcurrentDelegations == 3

\* ------------------------------------------------------------- constants
\* retry maximum (spec section 6: "retry maximum (default 3)"); the source
\* has no such setting.
RetryMaximum == 3

Runs == 1..NumRuns
Users == {"u1", "u2"}
PlanIds == {"p1", "p2"}
Contents == {"c1", "c2"}

\* the plan JSON a Content Generator hands on, by the 'order' values of its
\* 'lessons' list ('order': 'int', any integers): c1 numbers its two lessons
\* 0 and 1, c2 gives both the same number
LessonOrders(c) == IF c = "c1" THEN <<0, 1>> ELSE <<0, 0>>

\* config.py: MAX_LESSONS_PER_PLAN, MAX_EXTERNAL_RESOURCES_PER_LESSON
MAX_LESSONS_PER_PLAN == 10
MAX_EXTERNAL_RESOURCES_PER_LESSON == 5

\* the 'external_resources' list of each lesson of plan JSON c
\* ('external_resources': ['str'], any list of strings): the lessons of c1
\* carry two and three links, the first lesson of c2 carries six strings,
\* one of them twice and one empty
ExternalResources(c) ==
  IF c = "c1"
  THEN << <<"url1", "url2">>, <<"url3", "url4", "url5">> >>
  ELSE << <<"url1", "url1", "url2", "url3", "url4", "">>, <<>> >>

\* ---------------------------------------------------------------- agents
Leader == "leader"
PlanTeam == "content_generation_agent"
GraphTeam == "knowledge_graph_agent"
Generator == "content_generator_agent"
Retriever == "research_agent"
Persister == "content_writer_agent"
GraphGenerator == "graph_generator_agent"
GraphPersister == "graph_writer_agent"

Teams == {Leader, PlanTeam, GraphTeam}
Workers == {Generator, Retriever, Persister, GraphGenerator, GraphPersister}

\* members=[...] of each Team
Members(t) ==
  CASE t = Leader -> {PlanTeam, GraphTeam}
    [] t = PlanTeam -> {Generator, Retriever, Persister}
    [] t = GraphTeam -> {GraphGenerator, GraphPersister}
    [] OTHER -> {}

\* ----------------------------------------------------------------- errors
retryable_errors ==
  {"ConnectionError", "TimeoutError", "RateLimitError", "ServiceUnavailableError"}

\* exception classes a model call or a tool call raises in this model, by
\* type(e).__name__: a timeout, a schema validation failure, and a
\* connection reset (the builtin subclass of ConnectionError)
Errors == {"TimeoutError", "ValidationError", "ConnectionResetError"}

should_retry(error) == error \in retryable_errors

\* the status of a member call that failed with `error`
FailureStatus(error) ==
  IF should_retry(error) THEN "RetryableFailure" ELSE "FatalFailure"

Statuses == {"none", "Success", "RetryableFailure", "FatalFailure"}

\* ------------------------------------------------------- document store
\* Firestore as the source uses it: collection(...).document(id) names one
\* document by its path, .set(data) writes the document at that path.
\* A store is the set of stored documents, each [path, data].
DocSet(store, path, data) ==
  {d \in store : d.path # path} \cup {[path |-> path, data |-> data]}

DocsAt(store, path) == {d \in store : d.path = path}

LessonPlanPath(u, p) == <<"users", u, "lessonPlans", p>>
KnowledgeGraphPath(u) == <<"knowledgeGraphs", u>>

\* a write that adds a document each time it is called
add_lesson_plan(store, u, p, c) ==
  store \cup {[path |-> LessonPlanPath(u, p),
               data |-> [plan_id |-> p, content |-> c]]}

\* data.utils.write_lesson_plan: a keyed write of the plan document at
\* users/{user_id}/lessonPlans/{plan_id}
write_lesson_plan(store, u, p, c) ==
  DocSet(store, LessonPlanPath(u, p), [plan_id |-> p, content |-> c])

\* ------------------------------------------------------- knowledge graph
ConceptIds == {"k1", "k2"}
EdgeIds == {"e1", "e2"}
Node(k, n) == [concept_id |-> k, name |-> n]
Edge(e, s, t) == [edge_id |-> e, source_concept_id |-> s, target_concept_id |-> t]

\* what a Graph Generator run can hand the Graph Writer: lists of nodes and
\* of edges in the JSON formats of its instructions
Fragments ==
  { [nodes |-> {Node("k1", "a")}, edges |-> {Edge("e1", "k1", "k1")}],
    [nodes |-> {Node("k2", "a")}, edges |-> {Edge("e2", "k2", "k2")}],
    [nodes |-> {Node("k1", "b")}, edges |-> {}],
    [nodes |-> {}, edges |-> {Edge("e1", "k1", "k2")}] }

EmptyGraph == [nodes |-> {}, edges |-> {}]

\* data.utils.get_knowledge_graph: the stored graph document, or NotFound
get_knowledge_graph(store, u) ==
  IF DocsAt(store, KnowledgeGraphPath(u)) = {}
  THEN [found |-> FALSE, graph |-> EmptyGraph]
  ELSE [found |-> TRUE,
        graph |-> (CHOOSE d \in DocsAt(store, KnowledgeGraphPath(u)) : TRUE).data]

\* merge by id: a stored node or edge stays unless one with the same id
\* is written
MergeNodes(old, new) ==
  {n \in old : \A m \in new : m.concept_id # n.concept_id} \cup new
MergeEdges(old, new) ==
  {e \in old : \A f \in new : f.edge_id # e.edge_id} \cup new

\* a write that stores the given nodes and edges in place of the graph
set_knowledge_graph(store, u, nodes, edges) ==
  DocSet(store, KnowledgeGraphPath(u), [nodes |-> nodes, edges |-> edges])

\* a write that updates a stored graph and creates none
update_knowledge_graph(store, u, nodes, edges) ==
  LET cur == get_knowledge_graph(store, u)
  IN IF cur.found
     THEN DocSet(store, KnowledgeGraphPath(u),
                 [nodes |-> MergeNodes(cur.graph.nodes, nodes),
                  edges |-> MergeEdges(cur.graph.edges, edges)])
     ELSE store

\* data.utils.write_knowledge_graph: one transactional merge of the given
\* nodes and edges into knowledgeGraphs/{user_id}
write_knowledge_graph(store, u, nodes, edges) ==
  LET cur == get_knowledge_graph(store, u)
      base == IF cur.found THEN cur.graph ELSE EmptyGraph
  IN DocSet(store, KnowledgeGraphPath(u),
            [nodes |-> MergeNodes(base.nodes, nodes),
             edges |-> MergeEdges(base.edges, edges)])

\* graph_writer_agent: "Parse the message for user_id, list of edges, and
\* list of nodes from the graph generator", then write_knowledge_graph
GraphWriterTool(store, u, frag) ==
  write_knowledge_graph(store, u, frag.nodes, frag.edges)

\* ---------------------------------------------------------------- outcome
\* the dictionaries the entry points return: the keys present, and the
\* values the claims read (a value whose key is absent is a placeholder)
SuccessKeys ==
  {"success", "user_id", "prompt", "response", "context", "processing_time",
   "timestamp", "quality_score", "estimated_completion_time"}
FailureKeys ==
  {"success", "user_id", "prompt", "error", "error_type", "timestamp",
   "retry_recommended"}
AsyncFailureKeys == {"success", "user_id", "prompt", "error", "timestamp"}
BatchFailureKeys == {"success", "user_id", "prompt", "error", "timestamp"}

\* Python floats (IEEE 754 binary64) between 0.5 and 2, as the integer
\* number of units of 2^-56 they are, held in two limbs of 28 bits:
\* value = (hi * 2^28 + lo) * 2^-56.
Limb == 2^28
Float(hi, lo) == [hi |-> hi, lo |-> lo]

\* the float literals of calculate_quality_score
BaseScore == Float(134217728, 0)               \* 0.5
LengthBonus == Float(53687091, 53687092)       \* 0.2
LongBonus == Float(26843545, 161061274)        \* 0.1
StructuredBonus == Float(53687091, 53687092)   \* 0.2
ScoreCap == Float(268435456, 0)                \* 1.0
NoScore == Float(0, 0)

\* a + b of two floats whose sum lies in [0.5, 2): the exact sum rounded to
\* 53 significant bits, ties to even (one unit in the last place is 8 units
\* below 1.0 and 16 units from 1.0 on)
FloatAdd(a, b) ==
  LET lo == (a.lo + b.lo) % Limb
      hi == a.hi + b.hi + ((a.lo + b.lo) \div Limb)
      ulp == IF hi >= Limb THEN 16 ELSE 8
      rest == lo % ulp
      down == lo - rest
      up == \/ 2 * rest > ulp
            \/ 2 * rest = ulp /\ (down \div ulp) % 2 = 1
      rounded == IF up THEN down + ulp ELSE down
  IN Float(hi + (rounded \div Limb), rounded % Limb)

FloatLess(a, b) == a.hi < b.hi \/ (a.hi = b.hi /\ a.lo < b.lo)

\* min(score, 1.0)
Min(a, b) == IF FloatLess(b, a) THEN b ELSE a

\* what leader.run returns, as calculate_quality_score reads it
Responses ==
  {resp \in [content_length : {0, 1001, 2001}, structured_outputs : BOOLEAN,
             raises : BOOLEAN] :
     resp.raises => (resp.content_length = 0 /\ ~resp.structured_outputs)}

PlainResponse ==
  [content_length |-> 0, structured_outputs |-> FALSE, raises |-> FALSE]

NoOutcome ==
  [keys |-> {}, success |-> FALSE, user_id |-> "none", error_type |-> "none",
   retry_recommended |-> FALSE, quality_score |-> NoScore,
   response |-> PlainResponse]

\* calculate_quality_score; `raises` is a response whose content cannot be
\* read (the function's own except returns the base score)
FirstThreshold == 1000
SecondThreshold == 2000
calculate_quality_score(response) ==
  IF response.raises THEN BaseScore
  ELSE LET score0 == BaseScore
           score1 == IF response.content_length > FirstThreshold
                     THEN FloatAdd(score0, LengthBonus) ELSE score0
           score2 == IF /\ response.content_length > FirstThreshold
                        /\ response.content_length > SecondThreshold
                     THEN FloatAdd(score1, LongBonus) ELSE score1
           score3 == IF response.structured_outputs
                     THEN FloatAdd(score2, StructuredBonus) ELSE score2
       IN Min(score3, ScoreCap)


\* generate_learning_plan, the return of the try block
SuccessOutcome(u, response) ==
  [keys |-> SuccessKeys, success |-> TRUE, user_id |-> u, error_type |-> "none",
   retry_recommended |-> FALSE,
   quality_score |-> calculate_quality_score(response), response |-> response]

\* generate_learning_plan, "except Exception as e": every error class is
\* caught and turned into the failure dictionary
Escapes(e) == [keys |-> {}, success |-> FALSE, user_id |-> "none",
               error_type |-> e, retry_recommended |-> FALSE, quality_score |-> NoScore, response |-> PlainResponse]

ExceptOnlyRetryable(u, e) ==
  IF should_retry(e)
  THEN [keys |-> FailureKeys, success |-> FALSE, user_id |-> u, error_type |-> e,
        retry_recommended |-> TRUE, quality_score |-> NoScore, response |-> PlainResponse]
  ELSE Escapes(e)

ExceptException(u, e) ==
  [keys |-> FailureKeys, success |-> FALSE, user_id |-> u, error_type |-> e,
   retry_recommended |-> should_retry(e), quality_score |-> NoScore, response |-> PlainResponse]

\* generate_learning_plan_async, "except Exception as e"
AsyncExceptException(u, e) ==
  [keys |-> AsyncFailureKeys, success |-> FALSE, user_id |-> u,
   error_type |-> "none", retry_recommended |-> FALSE, quality_score |-> NoScore, response |-> PlainResponse]

\* batch_generate_plans, "except Exception as e" around one item
BatchExceptException(u, e) ==
  [keys |-> BatchFailureKeys, success |-> FALSE, user_id |-> u,
   error_type |-> "none", retry_recommended |-> FALSE, quality_score |-> NoScore, response |-> PlainResponse]

\* ------------------------------------------------------------------ state
VARIABLES
  lessonPlans,     \* stored documents users/{u}/lessonPlans/{p}
  knowledgeGraphs, \* stored documents knowledgeGraphs/{u}
  pc,              \* per run: idle, running, returned, escaped
  entry,           \* per run: sync (generate_learning_plan), async
                   \*          (generate_learning_plan_async) or batch (one
                   \*          item of batch_generate_plans)
  user,            \* per run: user_id
  stack,           \* per run: the agents whose run() is on the call stack
  delegations,     \* per run: member calls made so far
  status,          \* per run, per worker: how its last call ended
  lastCalled,      \* per run: the member (team or worker) called last
  attempts,        \* per run: calls of lastCalled in a row, each after a
                   \*          RetryableFailure of the one before
  planDone,        \* per run: how the Plan Coordinator last returned
  graphDone,       \* per run: how the Graph Coordinator last returned
  preRead,         \* per run: the Graph Coordinator's get_knowledge_graph
  planId,          \* per run: plan_id of the run's last plan write
  outcome,         \* per run: the dictionary returned to the caller
  raisedBy,        \* per run: the agent whose error left leader.run
  retrieved,       \* per run: the Researcher has answered at least once
  graphWrites,     \* per run: the fragments its Graph Writer has written
  latestPlan,      \* per (user, plan_id): content of the last submission
  cancelled,       \* per run: the caller has cancelled its await of the call
  userDocs,        \* stored documents users/{uid}
  promptDocs,      \* stored documents users/{uid}/prompts/{plan_id}
  globalPrompts,   \* stored documents prompts/{plan_id}
  uuids,           \* the values uuid.uuid4() has returned
  apiCall,         \* POST /api/user-prompt: the last request and its response
  rate_limit_storage, \* main.py's module global: the entries {client_ip:
                   \*   {'count', 'timestamp'}}, as records
  clock,           \* time.time(), in seconds
  requestLog       \* the requests the middleware has answered, in order

\* the state of the rate limiter (main.py)
limiterVars == <<rate_limit_storage, clock, requestLog>>

\* the state of the HTTP API (main.py)
apiVars ==
  <<userDocs, promptDocs, globalPrompts, uuids, apiCall, limiterVars>>

vars ==
  <<lessonPlans, knowledgeGraphs, pc, entry, user, stack, delegations, status,
    lastCalled, attempts, planDone, graphDone, preRead, planId, outcome,
    raisedBy, retrieved, graphWrites, latestPlan, cancelled, apiVars>>

NoCall == [userId |-> "none", status |-> 0, planId |-> "none"]

NoPlan == "none"
Top(r) == stack[r][Len(stack[r])]
Pop(r) == SubSeq(stack[r], 1, Len(stack[r]) - 1)
Running(r) == pc[r] = "running" /\ stack[r] # <<>>

Init ==
  /\ lessonPlans = {}
  /\ knowledgeGraphs = {}
  /\ pc = [r \in Runs |-> "idle"]
  /\ entry = [r \in Runs |-> "sync"]
  /\ user = [r \in Runs |-> "u1"]
  /\ stack = [r \in Runs |-> <<>>]
  /\ delegations = [r \in Runs |-> 0]
  /\ status = [r \in Runs |-> [w \in Workers |-> "none"]]
  /\ lastCalled = [r \in Runs |-> "none"]
  /\ attempts = [r \in Runs |-> 0]
  /\ planDone = [r \in Runs |-> "none"]
  /\ graphDone = [r \in Runs |-> "none"]
  /\ preRead = [r \in Runs |-> "none"]
  /\ planId = [r \in Runs |-> NoPlan]
  /\ outcome = [r \in Runs |-> NoOutcome]
  /\ raisedBy = [r \in Runs |-> "none"]
  /\ retrieved = [r \in Runs |-> FALSE]
  /\ graphWrites = [r \in Runs |-> {}]
  /\ latestPlan = [k \in Users \X PlanIds |-> "none"]
  /\ cancelled = [r \in Runs |-> FALSE]
  /\ userDocs = {}
  /\ promptDocs = {}
  /\ globalPrompts = {}
  /\ uuids = {}
  /\ apiCall = NoCall
  /\ rate_limit_storage = {}
  /\ clock = 0
  /\ requestLog = <<>>

\* ---------------------------------------------------------------- actions
\* An exception of class e leaves the try block of generate_learning_plan:
\* its except clause returns the failure dictionary; what it does not catch
\* reaches the caller (sync) or the except clause of the async wrapper or
\* of the batch loop.
Raised(r, e) ==
  LET o == ExceptException(user'[r], e)
  IN /\ stack' = [stack EXCEPT ![r] = <<>>]
     /\ IF o.keys # {}
        THEN /\ pc' = [pc EXCEPT ![r] = "returned"]
             /\ outcome' = [outcome EXCEPT ![r] = o]
        ELSE IF entry'[r] = "async"
        THEN /\ pc' = [pc EXCEPT ![r] = "returned"]
             /\ outcome' = [outcome EXCEPT ![r] = AsyncExceptException(user'[r], e)]
        ELSE IF entry'[r] = "batch"
        THEN /\ pc' = [pc EXCEPT ![r] = "returned"]
             /\ outcome' = [outcome EXCEPT ![r] = BatchExceptException(user'[r], e)]
        ELSE /\ pc' = [pc EXCEPT ![r] = "escaped"]
             /\ outcome' = outcome

\* generate_learning_plan(user_id, prompt, context) up to leader.run(...);
\* a context json.dumps cannot serialise raises TypeError inside the try
Submit(r, u, mode, contextOk) ==
  /\ pc[r] = "idle"
  /\ entry' = [entry EXCEPT ![r] = mode]
  /\ user' = [user EXCEPT ![r] = u]
  /\ IF contextOk
     THEN /\ pc' = [pc EXCEPT ![r] = "running"]
          /\ stack' = [stack EXCEPT ![r] = <<Leader>>]
          /\ outcome' = outcome
          /\ raisedBy' = raisedBy
     ELSE /\ raisedBy' = [raisedBy EXCEPT ![r] = "generate_learning_plan"]
          /\ Raised(r, "TypeError")
  /\ UNCHANGED <<cancelled, apiVars, lessonPlans, knowledgeGraphs, delegations, status, lastCalled,
                 attempts, planDone, graphDone, preRead, planId, retrieved, graphWrites, latestPlan>>

\* generate_learning_plan_async: loop.run_in_executor(...) itself raises
ExecutorFail(r, u) ==
  /\ pc[r] = "idle"
  /\ entry' = [entry EXCEPT ![r] = "async"]
  /\ user' = [user EXCEPT ![r] = u]
  /\ pc' = [pc EXCEPT ![r] = "returned"]
  /\ outcome' = [outcome EXCEPT ![r] = AsyncExceptException(u, "RuntimeError")]
  /\ UNCHANGED <<cancelled, apiVars, lessonPlans, knowledgeGraphs, stack, delegations, status,
                 lastCalled, attempts, planDone, graphDone, preRead, planId, raisedBy, retrieved, graphWrites, latestPlan>>

\* batch_generate_plans: an item without the key 'prompt' raises KeyError
\* before generate_learning_plan is called
BatchItemFail(r, u) ==
  /\ pc[r] = "idle"
  /\ entry' = [entry EXCEPT ![r] = "batch"]
  /\ user' = [user EXCEPT ![r] = u]
  /\ pc' = [pc EXCEPT ![r] = "returned"]
  /\ outcome' = [outcome EXCEPT ![r] = BatchExceptException(u, "KeyError")]
  /\ UNCHANGED <<cancelled, apiVars, lessonPlans, knowledgeGraphs, stack, delegations, status,
                 lastCalled, attempts, planDone, graphDone, preRead, planId, raisedBy, retrieved, graphWrites, latestPlan>>

\* the call of m about to be made repeats the call before it, which ended
\* in a RetryableFailure
IsRetry(r, m) ==
  m \in Workers /\ lastCalled[r] = m /\ status[r][m] = "RetryableFailure"

\* a Team's model delegates to one of its members
Delegate(r, m) ==
  /\ Running(r)
  /\ Top(r) \in Teams
  /\ m \in Members(Top(r))
  /\ IF IsRetry(r, m)
     THEN /\ attempts[r] < MaxAttempts
          /\ delegations' = delegations
     ELSE /\ delegations[r] < MaxDelegations
          /\ delegations' = [delegations EXCEPT ![r] = @ + 1]
  /\ stack' = [stack EXCEPT ![r] = Append(@, m)]
  /\ IF m \in Workers
     THEN /\ attempts' = [attempts EXCEPT ![r] =
                IF IsRetry(r, m) THEN @ + 1 ELSE 1]
          /\ lastCalled' = [lastCalled EXCEPT ![r] = m]
          /\ UNCHANGED <<status, preRead>>
     ELSE /\ status' = [status EXCEPT ![r] =
                [w \in Workers |-> IF w \in Members(m) THEN "none" ELSE @[w]]]
          /\ preRead' = [preRead EXCEPT ![r] = IF m = GraphTeam THEN "none" ELSE @]
          /\ lastCalled' = [lastCalled EXCEPT ![r] = m]
          /\ attempts' = [attempts EXCEPT ![r] = 0]
  /\ UNCHANGED <<cancelled, apiVars, lessonPlans, knowledgeGraphs, pc, entry, user, planDone,
                 graphDone, planId, outcome, raisedBy, retrieved, graphWrites, latestPlan>>

\* Content Generator, Researcher or Graph Generator answers
WorkerSucceed(r) ==
  /\ Running(r)
  /\ Top(r) \in {Generator, Retriever, GraphGenerator}
  /\ status' = [status EXCEPT ![r][Top(r)] = "Success"]
  /\ retrieved' = [retrieved EXCEPT ![r] = @ \/ Top(r) = Retriever]
  /\ stack' = [stack EXCEPT ![r] = Pop(r)]
  /\ UNCHANGED <<cancelled, apiVars, lessonPlans, knowledgeGraphs, pc, entry, user, delegations,
                 lastCalled, attempts, planDone, graphDone, preRead, planId,
                 outcome, raisedBy, graphWrites, latestPlan>>

\* Data Writer: write_lesson_plan with the plan JSON it was handed
PersisterWrite(r, p, c) ==
  /\ Running(r)
  /\ Top(r) = Persister
  /\ lessonPlans' = write_lesson_plan(lessonPlans, user[r], p, c)
  /\ planId' = [planId EXCEPT ![r] = p]
  /\ latestPlan' = [latestPlan EXCEPT ![<<user[r], p>>] = c]
  /\ status' = [status EXCEPT ![r][Persister] = "Success"]
  /\ stack' = [stack EXCEPT ![r] = Pop(r)]
  /\ UNCHANGED <<cancelled, apiVars, knowledgeGraphs, pc, entry, user, delegations, lastCalled,
                 attempts, planDone, graphDone, preRead, outcome, raisedBy, retrieved, graphWrites>>

\* Graph Writer: write_knowledge_graph with the generator's nodes and edges
GraphPersisterWrite(r, frag) ==
  /\ Running(r)
  /\ Top(r) = GraphPersister
  /\ knowledgeGraphs' = GraphWriterTool(knowledgeGraphs, user[r], frag)
  /\ graphWrites' = [graphWrites EXCEPT ![r] = @ \cup {frag}]
  /\ status' = [status EXCEPT ![r][GraphPersister] = "Success"]
  /\ stack' = [stack EXCEPT ![r] = Pop(r)]
  /\ UNCHANGED <<cancelled, apiVars, lessonPlans, pc, entry, user, delegations, lastCalled,
                 attempts, planDone, graphDone, preRead, planId, outcome, raisedBy, retrieved, latestPlan>>

\* a member's call fails with an error of class e and the failure is handed
\* back to the delegating Team as the member's answer
WorkerFail(r, e) ==
  /\ Running(r)
  /\ Top(r) \in Workers
  /\ status' = [status EXCEPT ![r][Top(r)] = FailureStatus(e)]
  /\ stack' = [stack EXCEPT ![r] = Pop(r)]
  /\ UNCHANGED <<cancelled, apiVars, lessonPlans, knowledgeGraphs, pc, entry, user, delegations,
                 lastCalled, attempts, planDone, graphDone, preRead, planId,
                 outcome, raisedBy, retrieved, graphWrites, latestPlan>>

\* the error of a model or tool call propagates out of leader.run
Raise(r, e) ==
  /\ Running(r)
  /\ entry' = entry
  /\ user' = user
  /\ raisedBy' = [raisedBy EXCEPT ![r] = Top(r)]
  /\ Raised(r, e)
  /\ UNCHANGED <<cancelled, apiVars, lessonPlans, knowledgeGraphs, delegations, status, lastCalled,
                 attempts, planDone, graphDone, preRead, planId, retrieved, graphWrites, latestPlan>>

\* the caller cancels generate_learning_plan_async while it awaits
\* run_in_executor: CancelledError is raised at the await, in the caller's
\* task; the executor's thread running generate_learning_plan is not told
\* and runs on
Cancel(r) ==
  /\ pc[r] = "running"
  /\ entry[r] = "async"
  /\ ~cancelled[r]
  /\ cancelled' = [cancelled EXCEPT ![r] = TRUE]
  /\ UNCHANGED <<apiVars, lessonPlans, knowledgeGraphs, pc, entry, user, stack,
                 delegations, status, lastCalled, attempts, planDone, graphDone,
                 preRead, planId, outcome, raisedBy, retrieved, graphWrites,
                 latestPlan>>

\* Knowledge Graph Leader: tools=[get_knowledge_graph]
PreRead(r) ==
  /\ Running(r)
  /\ Top(r) = GraphTeam
  /\ preRead[r] = "none"
  /\ preRead' = [preRead EXCEPT ![r] =
        IF get_knowledge_graph(knowledgeGraphs, user[r]).found
        THEN "Found" ELSE "NotFound"]
  /\ UNCHANGED <<cancelled, apiVars, lessonPlans, knowledgeGraphs, pc, entry, user, stack,
                 delegations, status, lastCalled, attempts, planDone, graphDone,
                 planId, outcome, raisedBy, retrieved, graphWrites, latestPlan>>

\* how a Coordinator's pipeline ended: its write went through, or not
PipelineResult(st, writer) ==
  IF st[writer] = "Success" THEN "Success" ELSE "FatalFailure"

\* a member Team answers its caller
TeamReturn(r) ==
  /\ Running(r)
  /\ Top(r) \in {PlanTeam, GraphTeam}
  /\ stack' = [stack EXCEPT ![r] = Pop(r)]
  /\ IF Top(r) = PlanTeam
     THEN /\ planDone' = [planDone EXCEPT ![r] = PipelineResult(status[r], Persister)]
          /\ graphDone' = graphDone
     ELSE /\ graphDone' = [graphDone EXCEPT ![r] = PipelineResult(status[r], GraphPersister)]
          /\ planDone' = planDone
  /\ UNCHANGED <<cancelled, apiVars, lessonPlans, knowledgeGraphs, pc, entry, user, delegations,
                 status, lastCalled, attempts, preRead, planId, outcome, raisedBy, retrieved, graphWrites, latestPlan>>

\* leader.run returns its response; generate_learning_plan returns the
\* success dictionary
LeaderFinish(r, response) ==
  /\ Running(r)
  /\ Top(r) = Leader
  /\ stack' = [stack EXCEPT ![r] = <<>>]
  /\ pc' = [pc EXCEPT ![r] = "returned"]
  /\ outcome' = [outcome EXCEPT ![r] = SuccessOutcome(user[r], response)]
  /\ UNCHANGED <<cancelled, apiVars, lessonPlans, knowledgeGraphs, entry, user, delegations, status,
                 lastCalled, attempts, planDone, graphDone, preRead, planId, raisedBy, retrieved, graphWrites, latestPlan>>

\* one step of run r
Step(r) ==
  \/ \E u \in Users, mode \in {"sync", "async", "batch"}, ok \in BOOLEAN :
        Submit(r, u, mode, ok)
  \/ \E u \in Users : ExecutorFail(r, u)
  \/ \E u \in Users : BatchItemFail(r, u)
  \/ \E m \in Teams \cup Workers : Delegate(r, m)
  \/ WorkerSucceed(r)
  \/ \E p \in PlanIds, c \in Contents : PersisterWrite(r, p, c)
  \/ \E frag \in Fragments : GraphPersisterWrite(r, frag)
  \/ \E e \in Errors : WorkerFail(r, e)
  \/ \E e \in Errors : Raise(r, e)
  \/ PreRead(r)
  \/ TeamReturn(r)
  \/ \E response \in Responses : LeaderFinish(r, response)
  \/ Cancel(r)

\* generate_learning_plan: enhanced_prompt, the one message the code builds
\* and hands to leader.run (the keys it names, and the values under them);
\* the calls of this model submit the same prompt
SourcePrompt == "prompt1"
enhanced_prompt(user_id, prompt) ==
  [keys |-> {"user_id", "prompt", "context"}, user_id |-> user_id,
   prompt |-> prompt]

\* One orchestration call, start to return, in every way the teams can run.
FirstRun == CHOOSE r \in Runs : \A q \in Runs : r <= q
Next == Step(FirstRun)

Spec == Init /\ [][Next]_vars

\* Concurrent calls (run_in_executor threads, one per request): the steps
\* that read and write the stored documents, interleaved in every order.
\* The steps left out (a generator's answer, a failed call, the Knowledge
\* Graph Leader's own get_knowledge_graph) write nothing, and the merge a
\* write makes reads the stored document itself.
WriteStep(r) ==
  \/ \E u \in Users : Submit(r, u, "sync", TRUE)
  \/ \E m \in {PlanTeam, GraphTeam, Persister, GraphPersister} :
        delegations[r] < MaxConcurrentDelegations /\ Delegate(r, m)
  \/ \E p \in PlanIds, c \in Contents : PersisterWrite(r, p, c)
  \/ \E frag \in Fragments : GraphPersisterWrite(r, frag)
  \/ TeamReturn(r)
  \/ LeaderFinish(r, PlainResponse)

NextConcurrent == \E r \in Runs : WriteStep(r)

SpecConcurrent == Init /\ [][NextConcurrent]_vars

\* The graph pipeline of one call, with a write that can hit a version
\* mismatch: write_knowledge_graph finds the stored document changed since
\* it read it, writes nothing and reports the conflict, a failure the spec
\* classes with the transient ones.
GraphWriteConflict(r) ==
  /\ Running(r)
  /\ Top(r) = GraphPersister
  /\ status' = [status EXCEPT ![r][GraphPersister] = "RetryableFailure"]
  /\ stack' = [stack EXCEPT ![r] = Pop(r)]
  /\ UNCHANGED <<cancelled, apiVars, lessonPlans, knowledgeGraphs, pc, entry,
                 user, delegations, lastCalled, attempts, planDone, graphDone,
                 preRead, planId, outcome, raisedBy, retrieved, graphWrites,
                 latestPlan>>

GraphStep(r) ==
  \/ \E u \in Users : Submit(r, u, "sync", TRUE)
  \/ \E m \in {GraphTeam, GraphGenerator, GraphPersister} : Delegate(r, m)
  \/ PreRead(r)
  \/ WorkerSucceed(r)
  \/ \E frag \in Fragments : GraphPersisterWrite(r, frag)
  \/ GraphWriteConflict(r)
  \/ TeamReturn(r)
  \/ LeaderFinish(r, PlainResponse)

NextGraph == GraphStep(FirstRun)

SpecGraph == Init /\ [][NextGraph]_vars

\* ------------------------------------------------------------ HTTP API
\* POST requests handled in one behaviour
MaxRequests == 3
\* the values uuid.uuid4() can return; a value is not returned twice
Uuid4Values == 1..MaxRequests

\* the Firestore calls of post_user_prompt, any of which can raise
FirestoreCalls == {"user_ref.get", "user_ref.set", "prompt_ref.set",
                   "global_prompt_ref.set"}

\* POST /api/user-prompt for userId u: uuid.uuid4() returns id; failAt is
\* the Firestore call that raises, "none" when every call goes through.
\* The calls before the failing one have taken effect; the except clause
\* answers 500.
PostUserPrompt(u, id, failAt) ==
  LET created == u \notin userDocs /\ failAt \notin {"user_ref.get", "user_ref.set"}
      drawn == failAt \notin {"user_ref.get", "user_ref.set"}
      prompted == drawn /\ failAt # "prompt_ref.set"
      global == prompted /\ failAt # "global_prompt_ref.set"
  IN /\ id \in Uuid4Values \ uuids
     /\ failAt = "user_ref.set" => u \notin userDocs
     /\ userDocs' = IF created THEN userDocs \cup {u} ELSE userDocs
     /\ uuids' = IF drawn THEN uuids \cup {id} ELSE uuids
     /\ promptDocs' = IF prompted
                      THEN DocSet(promptDocs, <<"users", u, "prompts", id>>,
                                  [userId |-> u, planId |-> id])
                      ELSE promptDocs
     /\ globalPrompts' = IF global
                         THEN DocSet(globalPrompts, <<"prompts", id>>,
                                     [userId |-> u, planId |-> id])
                         ELSE globalPrompts
     /\ apiCall' = IF failAt = "none"
                   THEN [userId |-> u, status |-> 200, planId |-> id]
                   ELSE [userId |-> u, status |-> 500, planId |-> "none"]
     /\ UNCHANGED <<lessonPlans, knowledgeGraphs, pc, entry, user, stack,
                    delegations, status, lastCalled, attempts, planDone,
                    graphDone, preRead, planId, outcome, raisedBy, retrieved,
                    graphWrites, latestPlan, cancelled, limiterVars>>

NextApi ==
  \E u \in Users, id \in Uuid4Values, failAt \in FirestoreCalls \cup {"none"} :
    PostUserPrompt(u, id, failAt)

SpecApi == Init /\ [][NextApi]_vars

\* -------------------------------------------------------- rate limiter
\* the clock runs to MaxClock seconds; the middleware answers at most
\* MaxMiddlewareCalls requests
MaxClock == 120
MaxMiddlewareCalls == 3
Clients == {"ip1", "ip2"}

\* "if current_time - v['timestamp'] < 60", "['count'] >= 100"
RateWindow == 60
RateLimit == 100

\* the name rate_limit_storage inside rate_limit_middleware: the function
\* assigns to it ("rate_limit_storage = {k: v for ...}") and declares it
\* neither global nor nonlocal, so it is a local variable of the function
\* everywhere in its body, and it has no value when the function starts
LocalAtEntry == [bound |-> FALSE, value |-> {}]

\* {k: v for k, v in rate_limit_storage.items()
\*        if current_time - v['timestamp'] < 60}
CleanOldEntries(storage, current_time) ==
  {e \in storage : current_time - e.timestamp < RateWindow}

\* the body of rate_limit_middleware for a request of client_ip at
\* current_time, `local` being the local variable rate_limit_storage:
\* the response's status, whether call_next was reached, and the value the
\* local variable ends with.  Reading the unbound local in the first
\* statement raises UnboundLocalError, which the application answers 500.
MiddlewareBody(client_ip, current_time, local) ==
  IF ~local.bound
  THEN [status |-> 500, passed |-> FALSE, storage |-> local.value]
  ELSE LET cleaned == CleanOldEntries(local.value, current_time)
           mine == {e \in cleaned : e.client = client_ip}
       IN IF mine # {}
          THEN IF \E e \in mine : e.count >= RateLimit
               THEN [status |-> 429, passed |-> FALSE, storage |-> cleaned]
               ELSE [status |-> 200, passed |-> TRUE,
                     storage |-> (cleaned \ mine) \cup
                        {[e EXCEPT !.count = @ + 1] : e \in mine}]
          ELSE [status |-> 200, passed |-> TRUE,
                storage |-> cleaned \cup
                   {[client |-> client_ip, count |-> 1,
                     timestamp |-> current_time]}]

\* one request through the middleware; the module global is never read or
\* assigned by the function (every use of the name is the local)
rate_limit_middleware(client_ip) ==
  LET result == MiddlewareBody(client_ip, clock, LocalAtEntry)
  IN /\ Len(requestLog) < MaxMiddlewareCalls
     /\ requestLog' = Append(requestLog,
           [client |-> client_ip, time |-> clock, status |-> result.status,
            passed |-> result.passed])
     /\ UNCHANGED <<rate_limit_storage, clock>>
     /\ UNCHANGED <<userDocs, promptDocs, globalPrompts, uuids, apiCall>>
     /\ UNCHANGED <<lessonPlans, knowledgeGraphs, pc, entry, user, stack,
                    delegations, status, lastCalled, attempts, planDone,
                    graphDone, preRead, planId, outcome, raisedBy, retrieved,
                    graphWrites, latestPlan, cancelled>>

\* time passes
Tick ==
  /\ clock + (RateWindow \div 2) <= MaxClock
  /\ clock' = clock + (RateWindow \div 2)
  /\ UNCHANGED <<rate_limit_storage, requestLog>>
  /\ UNCHANGED <<userDocs, promptDocs, globalPrompts, uuids, apiCall>>
  /\ UNCHANGED <<lessonPlans, knowledgeGraphs, pc, entry, user, stack,
                 delegations, status, lastCalled, attempts, planDone,
                 graphDone, preRead, planId, outcome, raisedBy, retrieved,
                 graphWrites, latestPlan, cancelled>>

NextRateLimit ==
  \/ \E client_ip \in Clients : rate_limit_middleware(client_ip)
  \/ Tick

SpecRateLimit == Init /\ [][NextRateLimit]_vars

\* ================================================================= claims
\* run r makes the member call of m in this step
Calls(r, m) == stack'[r] = Append(stack[r], m)
\* run r is between two steps of a Team: the member called last has answered
AtTeam(r) == Running(r) /\ Top(r) \in Teams
Terminal(st) == st \in {"Success", "FatalFailure"}

\* C1 (short-circuit): once the Plan Coordinator of a run has ended in a
\* terminal failure, no step of that run calls the Graph Coordinator, the
\* Graph Generator or the Graph Persister.
C1_ShortCircuit ==
  [][\A r \in Runs :
       (Running(r) /\ planDone[r] = "FatalFailure")
         => \A m \in {GraphTeam, GraphGenerator, GraphPersister} : ~Calls(r, m)]_vars

\* C2 (retry bound): a stage whose calls all end in RetryableFailure is
\* called again while fewer than RetryMaximum + 1 calls were made (the
\* Coordinator does nothing else first), and is not called again once
\* RetryMaximum + 1 calls were made.
C2_RetryBound ==
  [][\A r \in Runs : \A w \in Workers :
       (AtTeam(r) /\ lastCalled[r] = w /\ status[r][w] = "RetryableFailure")
         => /\ (attempts[r] < RetryMaximum + 1 /\ stack'[r] # stack[r])
                 => Calls(r, w)
            /\ attempts[r] >= RetryMaximum + 1 => ~Calls(r, w)]_vars

\* C3 (fatal failures are not retried): a stage that ended in FatalFailure
\* is not called again, and the next thing its Coordinator does is to hand
\* the failure up (it returns, or the error leaves the run).
C3_FatalNeverRetried ==
  [][\A r \in Runs : \A w \in Workers :
       (AtTeam(r) /\ lastCalled[r] = w /\ status[r][w] = "FatalFailure")
         => /\ ~Calls(r, w)
            /\ stack'[r] # stack[r] => Len(stack'[r]) < Len(stack[r])]_vars

\* C4 (stage order): the Retriever is called only after the Generator has
\* returned a terminal result, the Persister only after the Retriever has;
\* the Graph Generator only after the pre-read, the Graph Persister only
\* after the Graph Generator has returned a terminal result; and the Graph
\* Coordinator only after the Plan Coordinator has returned Success.
StageMayStart(r, m) ==
  CASE m = Retriever -> Terminal(status[r][Generator])
    [] m = Persister -> Terminal(status[r][Retriever])
    [] m = GraphGenerator -> preRead[r] # "none"
    [] m = GraphPersister -> Terminal(status[r][GraphGenerator])
    [] m = GraphTeam -> planDone[r] = "Success"
    [] OTHER -> TRUE

C4_StageOrder ==
  [][\A r \in Runs : \A m \in Teams \cup Workers :
       (Running(r) /\ Calls(r, m)) => StageMayStart(r, m)]_vars

\* ------------------------------------------------------- stored documents
StoredGraph(store, u) == get_knowledge_graph(store, u).graph
NodesOf(frags) == UNION {f.nodes : f \in frags}
EdgesOf(frags) == UNION {f.edges : f \in frags}
NodeIds(nodes) == {n.concept_id : n \in nodes}
EdgeIdsOf(edges) == {e.edge_id : e \in edges}
\* no id is written with two different values
UniqueIds(frags) ==
  /\ \A n, m \in NodesOf(frags) : n.concept_id = m.concept_id => n = m
  /\ \A e, f \in EdgesOf(frags) : e.edge_id = f.edge_id => e = f
\* everything the Graph Writers of the runs of user u have written
WrittenFor(u) == UNION {graphWrites[r] : r \in {q \in Runs : user[q] = u}}

MergedExactly(u) ==
  UniqueIds(WrittenFor(u))
    => /\ StoredGraph(knowledgeGraphs, u).nodes = NodesOf(WrittenFor(u))
       /\ StoredGraph(knowledgeGraphs, u).edges = EdgesOf(WrittenFor(u))

WriteIsMerge(u, frag) ==
  LET old == StoredGraph(knowledgeGraphs, u)
      new == StoredGraph(knowledgeGraphs', u)
  IN /\ frag.nodes \subseteq new.nodes
     /\ frag.edges \subseteq new.edges
     /\ new.nodes \ frag.nodes =
          {n \in old.nodes : n.concept_id \notin NodeIds(frag.nodes)}
     /\ new.edges \ frag.edges =
          {e \in old.edges : e.edge_id \notin EdgeIdsOf(frag.edges)}
     /\ \A v \in Users \ {u} :
          StoredGraph(knowledgeGraphs', v) = StoredGraph(knowledgeGraphs, v)

C6_GraphMerge ==
  /\ [](\A u \in Users : MergedExactly(u))
  /\ [][\A r \in Runs :
          (Running(r) /\ Top(r) = GraphPersister /\ stack'[r] = Pop(r)
             /\ status'[r][GraphPersister] = "Success")
            => \E frag \in graphWrites'[r] : WriteIsMerge(user[r], frag)]_vars

\* node k1 was written twice: its second value is stored, and the edge
\* written with its first value is still there
C6_Witness ==
  \E u \in Users :
    /\ StoredGraph(knowledgeGraphs, u).nodes = {Node("k1", "b"), Node("k2", "a")}
    /\ StoredGraph(knowledgeGraphs, u).edges
         = {Edge("e1", "k1", "k1"), Edge("e2", "k2", "k2")}

\* C7 (idempotent persistence): for every (user_id, plan_id) there is no
\* stored LessonPlan document before the first submission, and after any
\* number of submissions exactly one, holding the content submitted last.
C7_IdempotentPersistence ==
  \A u \in Users, p \in PlanIds :
    DocsAt(lessonPlans, LessonPlanPath(u, p)) =
      IF latestPlan[<<u, p>>] = "none" THEN {}
      ELSE {[path |-> LessonPlanPath(u, p),
             data |-> [plan_id |-> p, content |-> latestPlan[<<u, p>>]]]}

\* two runs have written the same (user_id, plan_id)
C7_Witness ==
  \E r1, r2 \in Runs :
    /\ r1 # r2 /\ user[r1] = user[r2]
    /\ planId[r1] # NoPlan /\ planId[r1] = planId[r2]
    /\ Cardinality(DocsAt(lessonPlans, LessonPlanPath(user[r1], planId[r1]))) = 1

\* ------------------------------------------------------------ entry points
GraphAgents == {GraphTeam, GraphGenerator, GraphPersister}
Failure(st) == st \in {"RetryableFailure", "FatalFailure"}

\* C8 (always an Outcome): no error leaves generate_learning_plan or
\* generate_learning_plan_async; a call that has returned has returned a
\* dictionary with the key "success" and a boolean under it, FALSE when an
\* error was raised under it.
C8_AlwaysOutcome ==
  \A r \in Runs :
    /\ pc[r] # "escaped"
    /\ pc[r] = "returned"
         => /\ "success" \in outcome[r].keys
            /\ outcome[r].success \in BOOLEAN
            /\ outcome[r].user_id = user[r]
            /\ raisedBy[r] # "none" => ~outcome[r].success

\* the synchronous entry point has returned the failure dictionary for an
\* error that is not in should_retry's list, raised inside leader.run
C8_Witness ==
  \E r \in Runs :
    /\ pc[r] = "returned" /\ entry[r] = "sync"
    /\ raisedBy[r] \in Teams \cup Workers
    /\ outcome[r].error_type = "ValidationError"
    /\ ~outcome[r].success

\* C9 (Retriever failure is absorbed): a call in which the Generator
\* succeeded and the Retriever failed on every attempt, nothing else
\* failing, returns success = TRUE, its Plan Coordinator having run the
\* Persister and returned Success.
RetrieverAlwaysFailed(r) ==
  /\ ~retrieved[r]
  /\ Failure(status[r][Retriever]) \/ raisedBy[r] = Retriever
  /\ raisedBy[r] \in {"none", Retriever}
  /\ status[r][Generator] = "Success"
  /\ \A w \in Workers \ {Retriever} : ~Failure(status[r][w])

C9_RetrieverFailureAbsorbed ==
  \A r \in Runs :
    (pc[r] = "returned" /\ RetrieverAlwaysFailed(r))
      => /\ outcome[r].success
         /\ planDone[r] = "Success"
         /\ status[r][Persister] = "Success"

\* C10 (graph failure is absorbed): a call whose Plan Coordinator returned
\* Success and whose Graph Coordinator, called after it, failed terminally
\* returns success = TRUE with the plan_id and a graph status in the
\* Outcome, and the plan the run stored is still stored.
GraphFailedAfterPlan(r) ==
  /\ planDone[r] = "Success"
  /\ lastCalled[r] \in GraphAgents
  /\ \/ raisedBy[r] \in GraphAgents
     \/ raisedBy[r] = "none" /\ graphDone[r] = "FatalFailure"

C10_GraphFailureAbsorbed ==
  \A r \in Runs :
    (pc[r] = "returned" /\ GraphFailedAfterPlan(r))
      => /\ outcome[r].success
         /\ {"plan_id", "graph_status"} \subseteq outcome[r].keys
         /\ DocsAt(lessonPlans, LessonPlanPath(user[r], planId[r])) # {}

\* C11 (success Outcome): an Outcome with success = TRUE carries a plan_id,
\* a graph status, a quality score and the elapsed time, and a LessonPlan
\* with the run's plan_id is stored for the run's user when it is returned.
C11_SuccessOutcomeComplete ==
  \A r \in Runs :
    (pc[r] = "returned" /\ outcome[r].success)
      => /\ {"plan_id", "graph_status", "quality_score", "processing_time"}
               \subseteq outcome[r].keys
         /\ planId[r] # NoPlan
         /\ DocsAt(lessonPlans, LessonPlanPath(user[r], planId[r])) # {}

\* C12 (failure Outcome): an Outcome with success = FALSE, from any of the
\* three entry points, carries the error type, the message and the flag
\* that says whether a retry of the submission is recommended.
C12_FailureOutcomeComplete ==
  \A r \in Runs :
    (pc[r] = "returned" /\ ~outcome[r].success)
      => {"error_type", "error", "retry_recommended"} \subseteq outcome[r].keys

\* the transient error classes: timeouts, rate-limit responses, connection
\* errors and resets, service unavailable
TransientErrors ==
  {"TimeoutError", "RateLimitError", "ConnectionError", "ConnectionResetError",
   "ServiceUnavailableError"}

\* C13 (failure classification): a failure is classified retryable exactly
\* when its error class is transient; every other class is classified
\* non-retryable.
C13_FailureClassification ==
  \A r \in Runs :
    (pc[r] = "returned" /\ "retry_recommended" \in outcome[r].keys)
      => (outcome[r].retry_recommended
            <=> outcome[r].error_type \in TransientErrors)

\* the floats nearest to 0.5, 0.7, 0.8, 0.9 and 1.0
DecimalTenths(n) ==
  CASE n = 5 -> Float(134217728, 0)
    [] n = 7 -> Float(187904819, 53687088)
    [] n = 8 -> Float(214748364, 214748368)
    [] n = 9 -> Float(241591910, 107374184)
    [] OTHER -> Float(268435456, 0)

\* the claim's arithmetic, in tenths
TenthsOf(response) ==
  LET sum == 5 + (IF response.content_length > FirstThreshold THEN 2 ELSE 0)
               + (IF response.content_length > SecondThreshold THEN 1 ELSE 0)
               + (IF response.structured_outputs THEN 2 ELSE 0)
  IN IF sum > 10 THEN 10 ELSE sum

\* C14 (quality score): the score in a success Outcome is one of 0.5, 0.7,
\* 0.8, 0.9, 1.0, and for a response whose content can be read it is exactly
\* 0.5 + 0.2 (length over 1000) + 0.1 (length over 2000) + 0.2 (structured
\* output), capped at 1.0.
C14_QualityScore ==
  \A r \in Runs :
    (pc[r] = "returned" /\ outcome[r].success)
      => /\ outcome[r].quality_score \in {DecimalTenths(n) : n \in {5, 7, 8, 9, 10}}
         /\ ~outcome[r].response.raises
              => outcome[r].quality_score = DecimalTenths(TenthsOf(outcome[r].response))

\* C15 (the score never gates persistence): the score is computed in the
\* step that returns, only for a run whose Plan Coordinator has returned
\* Success, and that step leaves the stored plans alone; it is computed
\* once; and every Persister write is made before any score exists, so no
\* score value prevents, delays or undoes it.
C15_ScoreNeverGates ==
  [][\A r \in Runs :
       /\ (pc[r] = "running" /\ "quality_score" \in outcome'[r].keys)
            => /\ planDone[r] = "Success"
               /\ lessonPlans' = lessonPlans
       /\ "quality_score" \in outcome[r].keys => outcome'[r] = outcome[r]
       /\ (Running(r) /\ Top(r) = Persister /\ stack'[r] = Pop(r)
              /\ status'[r][Persister] = "Success")
            => /\ "quality_score" \notin outcome[r].keys
               /\ \E p \in PlanIds, c \in Contents :
                    lessonPlans' = write_lesson_plan(lessonPlans, user[r], p, c)]_vars

\* C16 (order invariant): the lessons of every stored LessonPlan carry the
\* order values 0..N-1, each once, N being the number of lessons.
C16_OrderInvariant ==
  \A d \in lessonPlans :
    LET orders == LessonOrders(d.data.content)
    IN {orders[i] : i \in 1..Len(orders)} = 0..(Len(orders) - 1)

\* C17 (edge endpoints): in every stored KnowledgeGraph the source and the
\* target of every edge are concept_ids of nodes of the same graph.
C17_EdgeEndpoints ==
  \A u \in Users :
    LET graph == StoredGraph(knowledgeGraphs, u)
    IN \A e \in graph.edges :
         /\ e.source_concept_id \in NodeIds(graph.nodes)
         /\ e.target_concept_id \in NodeIds(graph.nodes)

\* C18 (plan_id): the plan_id of a run is assigned once (a later write of
\* the run does not store under another one), and no two runs store their
\* plans under the same generated plan_id.
C18_PlanIdUnique ==
  [][\A r1 \in Runs :
       /\ planId[r1] # NoPlan => planId'[r1] = planId[r1]
       /\ \A r2 \in Runs \ {r1} :
            planId'[r1] # NoPlan => planId'[r1] # planId'[r2]]_vars

\* C19 (cancellation): once the caller has cancelled a run, no write of
\* that run commits (what was stored before the cancellation stays).
C19_Cancellation ==
  [][\A r \in Runs :
       (cancelled[r] /\ stack'[r] # stack[r])
         => /\ lessonPlans' = lessonPlans
            /\ knowledgeGraphs' = knowledgeGraphs]_vars

\* C20 (unknown user): a submission for a user_id without a user record is
\* answered with a failure, and it creates no user record and writes no
\* prompt document.
C20_UnknownUserRejected ==
  [][\A u \in Users :
       (u \notin userDocs /\ apiCall'.userId = u /\ apiVars' # apiVars)
         => /\ apiCall'.status # 200
            /\ userDocs' = userDocs
            /\ promptDocs' = promptDocs
            /\ globalPrompts' = globalPrompts]_vars

\* C21 (lesson and resource bounds): every stored LessonPlan has between 1
\* and MAX_LESSONS_PER_PLAN lessons, and every lesson's external_resources
\* has at most MAX_EXTERNAL_RESOURCES_PER_LESSON entries, none twice and
\* none without a locator.
C21_LessonAndResourceBounds ==
  \A d \in lessonPlans :
    LET resources == ExternalResources(d.data.content)
        lessonCount == Len(LessonOrders(d.data.content))
    IN /\ 1 <= lessonCount /\ lessonCount <= MAX_LESSONS_PER_PLAN
       /\ \A i \in 1..Len(resources) :
            /\ Len(resources[i]) <= MAX_EXTERNAL_RESOURCES_PER_LESSON
            /\ \A j, k \in 1..Len(resources[i]) :
                 resources[i][j] = resources[i][k] => j = k
            /\ \A j \in 1..Len(resources[i]) : resources[i][j] # ""

\* the Graph Writer's last call ended in a version mismatch and its team is
\* about to act (under SpecGraph a version mismatch is the only failure)
ConflictPending(r) ==
  /\ AtTeam(r)
  /\ lastCalled[r] = GraphPersister
  /\ status[r][GraphPersister] = "RetryableFailure"

\* C22 (version conflict): after a graph write that hit a version mismatch
\* the Graph Writer is called again while fewer than RetryMaximum + 1 calls
\* were made, and the write of that call merges into the graph stored at
\* that moment; once RetryMaximum + 1 calls were made it is not called
\* again and the graph stage ends in FatalFailure.
C22_ConflictRetry ==
  [][\A r \in Runs :
       /\ ConflictPending(r)
            => /\ (attempts[r] < RetryMaximum + 1 /\ stack'[r] # stack[r])
                    => Calls(r, GraphPersister)
               /\ attempts[r] >= RetryMaximum + 1
                    => /\ ~Calls(r, GraphPersister)
                       /\ stack'[r] # stack[r] => graphDone'[r] = "FatalFailure"
       /\ (Running(r) /\ Top(r) = GraphPersister /\ attempts[r] > 1
              /\ stack'[r] = Pop(r) /\ status'[r][GraphPersister] = "Success")
            => \E frag \in graphWrites'[r] : WriteIsMerge(user[r], frag)]_vars

\* C23 (envelope identity): the message of every delegation carries a
\* task_id and an attempt number, and no two delegations carry the same
\* message (their task_ids differ).
C23_EnvelopeIdentity ==
  \A r1 \in Runs :
    pc[r1] # "idle"
      => /\ {"task_id", "attempt"}
               \subseteq enhanced_prompt(user[r1], SourcePrompt).keys
         /\ \A r2 \in Runs \ {r1} :
              pc[r2] # "idle"
                => enhanced_prompt(user[r1], SourcePrompt)
                     # enhanced_prompt(user[r2], SourcePrompt)

CountedBefore(i) ==
  {j \in 1..(i - 1) :
     /\ requestLog[j].client = requestLog[i].client
     /\ requestLog[j].passed
     /\ requestLog[i].time - requestLog[j].time < RateWindow}

\* C25 (rate limiter): a request is answered 429 without reaching the
\* handler exactly when its client already has RateLimit counted requests
\* within the last RateWindow seconds; every other request is passed on.
C25_RateLimiter ==
  \A i \in 1..Len(requestLog) :
    IF Cardinality(CountedBefore(i)) >= RateLimit
    THEN requestLog[i].status = 429 /\ ~requestLog[i].passed
    ELSE requestLog[i].status # 429 /\ requestLog[i].passed
====
